---- MODULE Spec2Model ----
(***************************************************************************)
(* A model of the change-orchestration core of resume-lm:                  *)
(*   - ResumeModifier (src/resume_modifier.py): the local transforms,      *)
(*   - the keyword classifiers (src/hybrid_query_classifier.py,            *)
(*     src/intelligent_query_classifier.py),                               *)
(*   - AdvancedUIAgent's integrity check (src/advanced_ui_agent.py),       *)
(*   - the /chat endpoint, its background tasks and the session store      *)
(*     (src/main.py, src/session_manager.py, src/agents.py).               *)
(* Python strings are TLA+ strings; TLC evaluates Len, SubSeq and \o on    *)
(* them, so every string operation below is computed character by         *)
(* character as the Python code computes it.                               *)
(***************************************************************************)
EXTENDS Integers, Sequences, FiniteSets, TLC

(***************************************************************************)
(* Python str / re primitives used by the source.                          *)
(***************************************************************************)

\* s[i] (1-based) as a one-character string
CharAt(s, i) == SubSeq(s, i, i)

\* s[i:] (1-based i)
From(s, i) == SubSeq(s, i, Len(s))

\* `k in s`
Contains(s, k) ==
    \E i \in 1..(Len(s) - Len(k) + 1) : SubSeq(s, i, i + Len(k) - 1) = k

\* s.startswith(p)
StartsWith(s, p) == Len(s) >= Len(p) /\ SubSeq(s, 1, Len(p)) = p

\* any(k in s for k in ks)
ContainsAny(s, ks) == \E k \in ks : Contains(s, k)

\* 1-based index of the first occurrence of k in s at or after i, 0 if none
RECURSIVE Find(_, _, _)
Find(s, k, i) ==
    IF i + Len(k) - 1 > Len(s) THEN 0
    ELSE IF SubSeq(s, i, i + Len(k) - 1) = k THEN i
    ELSE Find(s, k, i + 1)

\* s.replace(old, new): leftmost, non-overlapping occurrences (old # "")
RECURSIVE Replace(_, _, _)
Replace(s, old, new) ==
    LET i == Find(s, old, 1) IN
    IF i = 0 THEN s
    ELSE SubSeq(s, 1, i - 1) \o new \o Replace(From(s, i + Len(old)), old, new)

\* s.split(sep)
RECURSIVE Split(_, _)
Split(s, sep) ==
    LET i == Find(s, sep, 1) IN
    IF i = 0 THEN <<s>>
    ELSE <<SubSeq(s, 1, i - 1)>> \o Split(From(s, i + Len(sep)), sep)

\* sep.join(parts)
RECURSIVE Join(_, _)
Join(parts, sep) ==
    IF Len(parts) = 0 THEN ""
    ELSE IF Len(parts) = 1 THEN parts[1]
    ELSE parts[1] \o sep \o Join(Tail(parts), sep)

\* str.isspace() for one character
IsSpace(c) == c \in {" ", "\n", "\t", "\r"}

RECURSIVE LStrip(_)
LStrip(s) == IF Len(s) > 0 /\ IsSpace(CharAt(s, 1)) THEN LStrip(From(s, 2)) ELSE s

RECURSIVE RStrip(_)
RStrip(s) ==
    IF Len(s) > 0 /\ IsSpace(CharAt(s, Len(s)))
    THEN RStrip(SubSeq(s, 1, Len(s) - 1)) ELSE s

\* s.strip()
Strip(s) == RStrip(LStrip(s))

\* length of the run of non-space characters starting at s[1]
RECURSIVE WordLen(_)
WordLen(s) ==
    IF Len(s) = 0 \/ IsSpace(CharAt(s, 1)) THEN 0 ELSE 1 + WordLen(From(s, 2))

\* s.split(): the maximal runs of non-whitespace characters
RECURSIVE Words(_)
Words(s) ==
    LET t == LStrip(s) IN
    IF Len(t) = 0 THEN <<>>
    ELSE LET n == WordLen(t) IN <<SubSeq(t, 1, n)>> \o Words(From(t, n + 1))

UpperAlpha == "ABCDEFGHIJKLMNOPQRSTUVWXYZ"
UpperSet == {CharAt(UpperAlpha, i) : i \in 1..Len(UpperAlpha)}
LowerAlpha == "abcdefghijklmnopqrstuvwxyz"

\* s.lower()
RECURSIVE Lower(_)
Lower(s) ==
    IF Len(s) = 0 THEN ""
    ELSE LET c == CharAt(s, 1)
         IN (IF c \in UpperSet THEN CharAt(LowerAlpha, Find(UpperAlpha, c, 1)) ELSE c)
            \o Lower(From(s, 2))

\* c * n
RECURSIVE Repeat(_, _)
Repeat(c, n) == IF n <= 0 THEN "" ELSE c \o Repeat(c, n - 1)

\* number of leading newlines of s
RECURSIVE NewlineRun(_)
NewlineRun(s) ==
    IF Len(s) > 0 /\ CharAt(s, 1) = "\n" THEN 1 + NewlineRun(From(s, 2)) ELSE 0

\* re.sub(r'\n\n\n+', '\n\n', s): every run of three or more newlines
\* becomes two newlines
RECURSIVE CollapseNewlines(_)
CollapseNewlines(s) ==
    IF Len(s) = 0 THEN ""
    ELSE LET n == NewlineRun(s) IN
         IF n >= 3 THEN "\n\n" \o CollapseNewlines(From(s, n + 1))
         ELSE IF n > 0 THEN SubSeq(s, 1, n) \o CollapseNewlines(From(s, n + 1))
         ELSE CharAt(s, 1) \o CollapseNewlines(From(s, 2))

\* number of leading whitespace characters of s
RECURSIVE SpaceRun(_)
SpaceRun(s) ==
    IF Len(s) > 0 /\ IsSpace(CharAt(s, 1)) THEN 1 + SpaceRun(From(s, 2)) ELSE 0

\* re.sub(r'\s+', ' ', s)
RECURSIVE CollapseSpaces(_)
CollapseSpaces(s) ==
    IF Len(s) = 0 THEN ""
    ELSE LET n == SpaceRun(s) IN
         IF n > 0 THEN " " \o CollapseSpaces(From(s, n + 1))
         ELSE CharAt(s, 1) \o CollapseSpaces(From(s, 2))

\* re.sub(r'[...]', '', s) for a character class cls
RECURSIVE RemoveChars(_, _)
RemoveChars(s, cls) ==
    IF Len(s) = 0 THEN ""
    ELSE (IF CharAt(s, 1) \in cls THEN "" ELSE CharAt(s, 1))
         \o RemoveChars(From(s, 2), cls)

\* Optional[str]: <<>> is None, <<s>> is the string s
None == <<>>
Some(s) == <<s>>
\* Python truthiness of an Optional[str]
Truthy(opt) == Len(opt) = 1 /\ Len(opt[1]) > 0

(***************************************************************************)
(* The source's emoji are written with one-character ASCII stand-ins: the  *)
(* module's strings are ASCII.  None of them is "#", whitespace, or a      *)
(* character the transforms test for.                                      *)
(***************************************************************************)
BlueCircle  == "%"    \* U+1F535
GreenCircle == "+"    \* U+1F7E2
RedCircle   == "^"    \* U+1F534
Sparkles    == "~"    \* U+2728
GradCap     == "&"    \* U+1F393
Briefcase   == "$"    \* U+1F4BC
\* the character class of _modify_style, restricted to the emoji that the
\* documents of this model contain
CasualEmoji == {GradCap, Briefcase}

(***************************************************************************)
(* ResumeModifier (src/resume_modifier.py)                                 *)
(***************************************************************************)

modification_keywords ==
    {"font", "color", "size", "style", "spacing", "format",
     "bold", "italic", "underline", "larger", "smaller",
     "bigger", "compact", "margins", "layout"}

content_change_keywords ==
    {"add experience", "add new", "remove", "delete", "new job", "new project",
     "add education", "add skill", "change company", "change position",
     "add work", "new experience"}

\* can_handle_modification with 'remove' dropped from content_change_keywords
can_handle_modification_no_remove(user_query, existing_resume) ==
    /\ Truthy(existing_resume)
    /\ ContainsAny(Lower(user_query), modification_keywords)
    /\ ~ContainsAny(Lower(user_query), content_change_keywords \ {"remove"})

can_handle_modification(user_query, existing_resume) ==
    IF ~Truthy(existing_resume) THEN FALSE
    ELSE LET query_lower == Lower(user_query)
             has_modification_keyword ==
                 ContainsAny(query_lower, modification_keywords)
             has_content_change ==
                 ContainsAny(query_lower, content_change_keywords)
         IN has_modification_keyword /\ ~has_content_change

small_changes == {"font", "color", "bold", "italic", "size", "spacing", "tighter", "compact"}
medium_changes == {"layout", "format", "order", "table", "column"}
large_changes ==
    {"add experience", "add new", "remove", "delete", "new job", "new project",
     "change company", "change position"}

estimate_change_impact(user_query) ==
    LET query_lower == Lower(user_query) IN
    IF ContainsAny(query_lower, large_changes) THEN "large"
    ELSE IF ContainsAny(query_lower, medium_changes) THEN "medium"
    ELSE IF ContainsAny(query_lower, small_changes) THEN "small"
    ELSE "unknown"

\* index of the first line that starts with '# ' and not with '## ', 0 if none
RECURSIVE FirstNameLine(_, _)
FirstNameLine(lines, i) ==
    IF i > Len(lines) THEN 0
    ELSE IF StartsWith(lines[i], "# ") /\ ~StartsWith(lines[i], "## ") THEN i
    ELSE FirstNameLine(lines, i + 1)

\* _modify_font without the break that ends the scan at the first name header
_modify_font_every_header(user_query, resume) ==
    LET query_lower == Lower(user_query) IN
    IF Contains(query_lower, "name")
       /\ (Contains(query_lower, "font") \/ Contains(query_lower, "bold"))
    THEN LET lines == Split(resume, "\n")
             IsName(line) == StartsWith(line, "# ") /\ ~StartsWith(line, "## ")
         IN Join([i \in 1..Len(lines) |->
                     IF IsName(lines[i])
                     THEN "# **" \o Strip(From(lines[i], 3)) \o "**"
                     ELSE lines[i]], "\n")
    ELSE resume

_modify_font(user_query, resume) ==
    LET query_lower == Lower(user_query) IN
    IF Contains(query_lower, "name")
       /\ (Contains(query_lower, "font") \/ Contains(query_lower, "bold"))
    THEN LET lines == Split(resume, "\n")
             i == FirstNameLine(lines, 1)
             name == Strip(From(lines[i], 3))
             new_lines ==
                 IF i = 0 THEN lines
                 ELSE IF Contains(query_lower, "bold") \/ Contains(query_lower, "larger")
                 THEN [lines EXCEPT ![i] = "# **" \o name \o "**"]
                 ELSE IF Contains(query_lower, "italic")
                 THEN [lines EXCEPT ![i] = "# *" \o name \o "*"]
                 ELSE IF Contains(query_lower, "underline")
                 THEN SubSeq(lines, 1, i - 1)
                      \o <<"# " \o name, Repeat("=", Len(name))>>
                      \o SubSeq(lines, i + 1, Len(lines))
                 ELSE lines
         IN Join(new_lines, "\n")
    ELSE resume

_modify_color(user_query, resume) ==
    LET query_lower == Lower(user_query) IN
    IF Contains(query_lower, "blue")
    THEN Replace(resume, "## ", "## " \o BlueCircle \o " ")
    ELSE IF Contains(query_lower, "green")
    THEN Replace(resume, "## ", "## " \o GreenCircle \o " ")
    ELSE IF Contains(query_lower, "red")
    THEN Replace(resume, "## ", "## " \o RedCircle \o " ")
    ELSE resume

\* the test of the loop of _make_contact_compact for one line
IsContactLine(line) ==
    /\ Len(Strip(line)) > 0
    /\ ~StartsWith(line, "#")
    /\ (Contains(line, "@") \/ Contains(Lower(line), "linkedin") \/ Contains(line, "("))

\* the loop of _make_contact_compact from line i on:
\* contact_start (0 for -1) and contact_lines when the loop ends
RECURSIVE ContactScan(_, _, _, _)
ContactScan(lines, i, contact_start, contact_lines) ==
    IF i > Len(lines) THEN [contact_start |-> contact_start, contact_lines |-> contact_lines]
    ELSE IF IsContactLine(lines[i])
    THEN ContactScan(lines, i + 1,
                     IF contact_start = 0 THEN i ELSE contact_start,
                     Append(contact_lines, Strip(lines[i])))
    ELSE IF contact_start # 0 /\ Strip(lines[i]) = ""
    THEN [contact_start |-> contact_start, contact_lines |-> contact_lines]
    ELSE ContactScan(lines, i + 1, contact_start, contact_lines)

_make_contact_compact(resume) ==
    LET lines == Split(resume, "\n")
        scan == ContactScan(lines, 1, 0, <<>>)
        contact_start == scan.contact_start
        contact_lines == scan.contact_lines
    IN IF Len(contact_lines) > 0
       THEN LET combined_contact == Join(contact_lines, " | ")
                new_lines == SubSeq(lines, 1, contact_start - 1)
                             \o <<combined_contact>>
                             \o SubSeq(lines, contact_start + Len(contact_lines), Len(lines))
            IN Join(new_lines, "\n")
       ELSE resume

_modify_layout(user_query, resume) ==
    LET query_lower == Lower(user_query) IN
    IF Contains(query_lower, "compact") \/ Contains(query_lower, "shorter")
    THEN _make_contact_compact(CollapseNewlines(resume))
    ELSE IF Contains(query_lower, "more space") \/ Contains(query_lower, "spacious")
    THEN Replace(resume, "\n## ", "\n\n---\n\n## ")
    ELSE resume

_modify_spacing(user_query, resume) ==
    LET query_lower == Lower(user_query) IN
    IF Contains(query_lower, "less space") \/ Contains(query_lower, "compact")
       \/ Contains(query_lower, "tighter")
    THEN Replace(CollapseNewlines(resume), "\n\n## ", "\n## ")
    ELSE IF Contains(query_lower, "more space")
    THEN Replace(resume, "\n\n", "\n\n\n")
    ELSE resume

\* re.sub(r'^# (.+)$', r'# **\1**', line) for one line of a MULTILINE match
EmphasizeNameLine(line) ==
    IF StartsWith(line, "# ") /\ Len(line) >= 3
    THEN "# **" \o From(line, 3) \o "**"
    ELSE line

_modify_size(user_query, resume) ==
    LET query_lower == Lower(user_query) IN
    IF (Contains(query_lower, "larger") \/ Contains(query_lower, "bigger"))
       /\ Contains(query_lower, "name")
    THEN LET lines == Split(resume, "\n")
         IN Join([i \in 1..Len(lines) |-> EmphasizeNameLine(lines[i])], "\n")
    ELSE resume

_modify_style(user_query, resume) ==
    LET query_lower == Lower(user_query) IN
    IF Contains(query_lower, "professional")
    THEN CollapseSpaces(RemoveChars(resume, CasualEmoji))
    ELSE IF Contains(query_lower, "modern") \/ Contains(query_lower, "creative")
    THEN Replace(resume, "## ", "## " \o Sparkles \o " ")
    ELSE resume

table_format ==
    "## " \o GradCap \o " Education\n\n| Degree | Institution | Year |\n"
    \o "|--------|-------------|------|\n"
    \o "| Bachelor of Science | University Name | 2020-2024 |\n"

\* the lazy .*? of _convert_education_to_table: the first position at or
\* after p where the lookahead (?=\n## |\n---|\Z) succeeds
RECURSIVE SectionEnd(_, _)
SectionEnd(s, p) ==
    IF p > Len(s) \/ StartsWith(From(s, p), "\n## ") \/ StartsWith(From(s, p), "\n---")
    THEN p
    ELSE SectionEnd(s, p + 1)

_convert_education_to_table(resume) ==
    LET head == "## " \o GradCap
        i == Find(resume, head, 1)
    IN IF i = 0 THEN resume
       ELSE LET e == SectionEnd(resume, i + Len(head))
                education_section == SubSeq(resume, i, e - 1)
            IN Replace(resume, education_section, table_format)

_modify_format(user_query, resume) ==
    LET query_lower == Lower(user_query) IN
    IF Contains(query_lower, "table") /\ Contains(query_lower, "education")
    THEN _convert_education_to_table(resume)
    ELSE resume

apply_modification(user_query, existing_resume) ==
    LET query_lower == Lower(user_query) IN
    IF Contains(query_lower, "font") \/ Contains(query_lower, "bold")
    THEN _modify_font(user_query, existing_resume)
    ELSE IF Contains(query_lower, "color")
    THEN _modify_color(user_query, existing_resume)
    ELSE IF Contains(query_lower, "compact") \/ Contains(query_lower, "spacing")
            \/ Contains(query_lower, "tighter")
    THEN _modify_spacing(user_query, existing_resume)
    ELSE IF Contains(query_lower, "layout")
    THEN _modify_layout(user_query, existing_resume)
    ELSE IF Contains(query_lower, "size")
    THEN _modify_size(user_query, existing_resume)
    ELSE IF Contains(query_lower, "style")
    THEN _modify_style(user_query, existing_resume)
    ELSE IF Contains(query_lower, "format")
    THEN _modify_format(user_query, existing_resume)
    ELSE existing_resume

(***************************************************************************)
(* Keyword classifiers (src/hybrid_query_classifier.py,                    *)
(* src/intelligent_query_classifier.py).  A QueryClassification is a       *)
(* record; its confidence is kept in hundredths (0.85 is 85).  NoMatch is  *)
(* the None that _quick_regex_classify returns.                            *)
(***************************************************************************)

QueryType ==
    {"ui_modification", "content_update", "data_gathering", "resume_generation",
     "question_answer", "greeting", "unclear"}

QueryClassification(query_type, confidence, categories) ==
    [matched |-> TRUE, query_type |-> query_type,
     confidence |-> confidence, categories |-> categories]

NoMatch == [matched |-> FALSE]

\* [c for c in order if cond(c)]: the categories appended, in program order
RECURSIVE Appended(_, _)
Appended(order, chosen) ==
    IF Len(order) = 0 THEN <<>>
    ELSE (IF Head(order) \in chosen THEN <<Head(order)>> ELSE <<>>)
         \o Appended(Tail(order), chosen)

quick_greetings == {"hello", "hi", "hey", "thanks"}
quick_ui_keywords ==
    {"bold", "italic", "color", "blue", "red", "larger", "smaller", "compact",
     "spacing", "font"}
quick_content_keywords ==
    {"add", "update", "change my", "remove", "worked at", "studied at"}

_quick_regex_classify(message) ==
    LET message_lower == Strip(Lower(message))
        has_ui == ContainsAny(message_lower, quick_ui_keywords)
        has_content == ContainsAny(message_lower, quick_content_keywords)
    IN IF ContainsAny(message_lower, quick_greetings)
       THEN QueryClassification("greeting", 90, <<>>)
       ELSE IF has_ui /\ ~has_content
       THEN QueryClassification("ui_modification", 85,
                Appended(<<"font", "color", "size">>,
                    {c \in {"font"} : ContainsAny(message_lower, {"bold", "italic", "font"})}
                    \cup {c \in {"color"} : ContainsAny(message_lower, {"color", "blue", "red"})}
                    \cup {c \in {"size"} : ContainsAny(message_lower, {"larger", "smaller"})}))
       ELSE IF has_content
       THEN QueryClassification(
                IF ContainsAny(message_lower, {"add", "update", "change", "remove"})
                THEN "content_update" ELSE "data_gathering",
                82,
                Appended(<<"experience", "skills", "education">>,
                    {c \in {"experience"} : ContainsAny(message_lower, {"experience", "worked"})}
                    \cup {c \in {"skills"} : Contains(message_lower, "skills")}
                    \cup {c \in {"education"} : ContainsAny(message_lower, {"education", "studied"})}))
       ELSE IF ContainsAny(message_lower,
                   {"generate resume", "create resume", "build resume", "ready"})
       THEN QueryClassification("resume_generation", 85, <<>>)
       ELSE NoMatch

\* IntelligentQueryClassifier.fallback_patterns, in dictionary order
\* HybridQueryClassifier.classify_query: the regex result is the label when
\* its confidence reaches ai_threshold
ai_threshold == 80

regex_accepted(message) ==
    LET regex_result == _quick_regex_classify(message)
    IN regex_result.matched /\ regex_result.confidence >= ai_threshold

fallback_order == <<"ui_modification", "content_update", "data_gathering", "greeting">>

fallback_patterns(query_type) ==
    CASE query_type = "ui_modification" ->
           {"bold", "italic", "color", "blue", "red", "layout", "compact",
            "spacing", "font", "larger", "smaller", "style", "modern", "professional"}
      [] query_type = "content_update" ->
           {"add experience", "change name", "update skills", "worked at",
            "studied at", "graduated", "add project", "remove", "delete"}
      [] query_type = "data_gathering" ->
           {"tell me", "what", "how", "my name is", "I worked", "I studied",
            "my skills", "I have experience"}
      [] query_type = "greeting" ->
           {"hello", "hi", "hey", "good morning", "good afternoon", "thanks"}

\* sum(1 for pattern in patterns if pattern in message_lower)
fallback_score(message_lower, query_type) ==
    Cardinality({p \in fallback_patterns(query_type) : Contains(message_lower, p)})

\* max(scores.keys(), key=...): the first key, in dictionary order, whose
\* score is the largest; scores[i] is the score of fallback_order[i]
RECURSIVE FirstMax(_, _, _)
FirstMax(scores, i, best) ==
    IF i > Len(scores) THEN best
    ELSE FirstMax(scores, i + 1, IF scores[i] > scores[best] THEN i ELSE best)

Min(a, b) == IF a <= b THEN a ELSE b
Max(a, b) == IF a >= b THEN a ELSE b
Abs(a) == IF a >= 0 THEN a ELSE -a

_fallback_classify_query(message) ==
    LET message_lower == Strip(Lower(message))
        scores == <<fallback_score(message_lower, fallback_order[1]),
                    fallback_score(message_lower, fallback_order[2]),
                    fallback_score(message_lower, fallback_order[3]),
                    fallback_score(message_lower, fallback_order[4])>>
        top == FirstMax(scores, 2, 1)
        max_score == scores[top]
        best_type == IF max_score = 0 THEN "unclear" ELSE fallback_order[top]
        confidence == IF max_score = 0 THEN 30 ELSE Min(80, max_score * 20 + 50)
        categories ==
            IF best_type = "ui_modification"
            THEN Appended(<<"color", "font", "layout">>,
                    {c \in {"color"} : ContainsAny(message_lower, {"color", "blue", "red"})}
                    \cup {c \in {"font"} : ContainsAny(message_lower, {"font", "bold", "italic"})}
                    \cup {c \in {"layout"} : ContainsAny(message_lower, {"layout", "compact", "spacing"})})
            ELSE <<>>
    IN QueryClassification(best_type, confidence, categories)

(***************************************************************************)
(* The semantic classifiers.  The reply of chat.completions.create is a    *)
(* record: kind "raise" (the call raises or times out), "none" (content is *)
(* None), "text" (content is not JSON), "array" (JSON, not an object) or   *)
(* "object" with the fields query_type and confidence.  A field is         *)
(* [tag |-> "missing"], [tag |-> "null"], [tag |-> "text"] (a string that  *)
(* is neither a QueryType value nor a number), [tag |-> "string", value]   *)
(* or [tag |-> "number", value] with the value in hundredths.  An outcome  *)
(* is the returned classification, or the exception that leaves the call.  *)
(***************************************************************************)
Returned(query_type, confidence, categories) ==
    [raised |-> FALSE, exception |-> "", query_type |-> query_type,
     confidence |-> confidence, categories |-> categories]

Raises(exception) ==
    [raised |-> TRUE, exception |-> exception, query_type |-> "",
     confidence |-> 0, categories |-> <<>>]

\* result_data.get("query_type", "unclear") given to the QueryType enum
query_type_of(field) ==
    IF field.tag = "missing" THEN Returned("unclear", 0, <<>>)
    ELSE IF field.tag = "string" /\ field.value \in QueryType
    THEN Returned(field.value, 0, <<>>)
    ELSE Raises("ValueError")

\* float(result_data.get("confidence", 0.5))
confidence_of(field) ==
    IF field.tag = "missing" THEN Returned("", 50, <<>>)
    ELSE IF field.tag = "number" THEN Returned("", field.value, <<>>)
    ELSE IF field.tag = "null" THEN Raises("TypeError")
    ELSE Raises("ValueError")

\* json.loads(result_text) and the construction of the classification
parse_classification(response) ==
    IF response.kind = "text" THEN Raises("JSONDecodeError")
    ELSE IF response.kind = "array" THEN Raises("AttributeError")
    ELSE LET fields == IF response.kind = "none"
                       THEN [query_type |-> [tag |-> "missing"],
                             confidence |-> [tag |-> "missing"]]
                       ELSE response
             query_type == query_type_of(fields.query_type)
             confidence == confidence_of(fields.confidence)
         IN IF query_type.raised THEN query_type
            ELSE IF confidence.raised THEN confidence
            ELSE Returned(query_type.query_type, confidence.confidence, <<>>)

FromFallback(message) ==
    LET fallback == _fallback_classify_query(message)
    IN Returned(fallback.query_type, fallback.confidence, fallback.categories)

_ai_classify_query(message, response) ==
    IF response.kind = "raise" THEN Raises("APIError")
    ELSE LET parsed == parse_classification(response)
         IN IF parsed.raised /\ parsed.exception \in {"JSONDecodeError", "ValueError"}
            THEN FromFallback(message)
            ELSE parsed

\* IntelligentQueryClassifier.classify_query
intelligent_classify_query(message, response) ==
    LET result == _ai_classify_query(message, response)
    IN IF result.raised THEN FromFallback(message) ELSE result

\* AdvancedUIAgent.ui_keywords, category after category; 'larger', 'smaller'
\* and 'bigger' are listed under font and under size
ui_keywords ==
    <<"font", "bold", "italic", "typeface", "larger", "smaller", "bigger",
      "color", "blue", "red", "green", "navy", "teal", "black", "gray",
      "layout", "format", "structure", "column", "arrange", "organize",
      "spacing", "compact", "tight", "spacious", "gap", "margin", "padding",
      "size", "larger", "smaller", "bigger", "increase", "decrease",
      "style", "modern", "professional", "creative", "clean", "minimal">>

content_keywords ==
    <<"experience", "education", "skills", "work", "job", "company", "project",
      "degree", "university", "college", "certification", "add", "remove",
      "change my", "update my", "worked at", "studied at", "graduated">>

\* the number of entries of a keyword list that occur in the message
Indicators(message_lower, keywords) ==
    Cardinality({i \in 1..Len(keywords) : Contains(message_lower, keywords[i])})

\* AdvancedUIAgent.is_ui_modification_request
is_ui_modification_request(message) ==
    LET message_lower == Lower(message)
        ui_indicators == Indicators(message_lower, ui_keywords)
        content_indicators == Indicators(message_lower, content_keywords)
    IN ui_indicators > content_indicators /\ ui_indicators > 0

\* The result of the hybrid classifier: the classification, the method that
\* produced it and the number of calls made to ai_classifier.classify_query.
HybridClassificationResult(result, method_used, ai_classifier_calls) ==
    [raised |-> result.raised, exception |-> result.exception,
     query_type |-> result.query_type, confidence |-> result.confidence,
     categories |-> result.categories, method_used |-> method_used,
     ai_classifier_calls |-> ai_classifier_calls]

\* A variant that asks the semantic classifier first and then prefers the
\* pattern match.
hybrid_classify_query_ai_first(message, response) ==
    LET regex_result == _quick_regex_classify(message)
        ai_result == intelligent_classify_query(message, response)
    IN IF regex_result.matched /\ regex_result.confidence >= ai_threshold
       THEN HybridClassificationResult(
                Returned(regex_result.query_type, regex_result.confidence,
                         regex_result.categories), "regex", 1)
       ELSE HybridClassificationResult(ai_result, "ai", 1)

\* HybridQueryClassifier.classify_query
hybrid_classify_query(message, response) ==
    LET regex_result == _quick_regex_classify(message)
    IN IF regex_result.matched /\ regex_result.confidence >= ai_threshold
       THEN HybridClassificationResult(
                Returned(regex_result.query_type, regex_result.confidence,
                         regex_result.categories), "regex", 0)
       ELSE HybridClassificationResult(
                intelligent_classify_query(message, response), "ai", 1)

\* PureAIQueryClassifier.classify_query
pure_classify_query(message, response) ==
    LET result == IF response.kind = "raise" THEN Raises("APIError")
                  ELSE parse_classification(response)
    IN IF ~result.raised THEN result
       ELSE IF result.exception \in {"JSONDecodeError", "ValueError"}
       THEN Returned("unclear", 30, <<"parsing_error">>)
       ELSE Returned("unclear", 20, <<"system_error">>)

(***************************************************************************)
(* The auto-fit generators (src/configurable_autofit_generator.py,         *)
(* src/auto_fit_generator.py, src/auto_fit_docx_generator.py) and the      *)
(* control panel that configures them (src/sensitivity_control_panel.py).  *)
(* A document is held as markdown_text.split('\n').  Weights, factors,     *)
(* line spacings, margins and the spacing and margin reductions are in     *)
(* hundredths, scaling_sensitivity in tenths, font sizes in points; the    *)
(* margins of a configurable scale are in ten-thousandths.                 *)
(***************************************************************************)
TierFonts(header, section, body, small) ==
    [header |-> header, section |-> section, body |-> body, small |-> small]

\* the configuration of ConfigurableAutoFitGenerator() built with no argument
default_sensitivity ==
    [short_resume_lines |-> 25, medium_resume_lines |-> 40,
     long_resume_lines |-> 60, very_long_lines |-> 80,
     scaling_sensitivity |-> 10, min_font_size |-> 6, max_font_size |-> 20,
     header_weight |-> 250, bullet_weight |-> 180, job_entry_weight |-> 300,
     word_weight |-> 12, line_weight |-> 120,
     comfortable |-> TierFonts(14, 11, 10, 9),
     balanced |-> TierFonts(13, 10, 9, 8),
     compact |-> TierFonts(12, 10, 8, 7),
     dense |-> TierFonts(11, 9, 7, 6),
     ultra_dense |-> TierFonts(10, 8, 6, 5),
     spacing_reduction |-> 80, margin_reduction |-> 90]

SENSITIVITY_PROFILES ==
    [conservative |->
        [short_resume_lines |-> 30, medium_resume_lines |-> 50,
         long_resume_lines |-> 70, very_long_lines |-> 90,
         scaling_sensitivity |-> 7, min_font_size |-> 7, max_font_size |-> 20,
         spacing_reduction |-> 90, margin_reduction |-> 95,
         comfortable |-> TierFonts(20, 14, 11, 10),
         balanced |-> TierFonts(18, 12, 10, 9),
         compact |-> TierFonts(16, 11, 9, 8),
         dense |-> TierFonts(15, 10, 8, 7),
         ultra_dense |-> TierFonts(14, 9, 7, 6),
         header_weight |-> 200, bullet_weight |-> 150, job_entry_weight |-> 250,
         word_weight |-> 10, line_weight |-> 100],
     aggressive |->
        [short_resume_lines |-> 20, medium_resume_lines |-> 30,
         long_resume_lines |-> 45, very_long_lines |-> 60,
         scaling_sensitivity |-> 13, min_font_size |-> 5, max_font_size |-> 18,
         spacing_reduction |-> 60, margin_reduction |-> 70,
         comfortable |-> TierFonts(16, 11, 9, 8),
         balanced |-> TierFonts(14, 10, 8, 7),
         compact |-> TierFonts(13, 9, 7, 6),
         dense |-> TierFonts(12, 8, 6, 5),
         ultra_dense |-> TierFonts(11, 7, 5, 5),
         header_weight |-> 300, bullet_weight |-> 220, job_entry_weight |-> 350,
         word_weight |-> 15, line_weight |-> 140],
     balanced |->
        [short_resume_lines |-> 25, medium_resume_lines |-> 40,
         long_resume_lines |-> 60, very_long_lines |-> 80,
         scaling_sensitivity |-> 10, min_font_size |-> 6, max_font_size |-> 20,
         spacing_reduction |-> 80, margin_reduction |-> 90,
         comfortable |-> TierFonts(18, 12, 10, 9),
         balanced |-> TierFonts(16, 11, 9, 8),
         compact |-> TierFonts(15, 10, 8, 7),
         dense |-> TierFonts(14, 9, 7, 6),
         ultra_dense |-> TierFonts(13, 8, 6, 5),
         header_weight |-> 250, bullet_weight |-> 180, job_entry_weight |-> 300,
         word_weight |-> 12, line_weight |-> 120]]

\* SensitivityControlPanel: current_config after each of its operations
load_profile(current_config, profile_name) ==
    IF profile_name \notin DOMAIN SENSITIVITY_PROFILES THEN current_config
    ELSE SENSITIVITY_PROFILES[profile_name]

adjust_sensitivity(current_config, parameter, value) ==
    IF parameter \notin DOMAIN current_config THEN current_config
    ELSE [current_config EXCEPT ![parameter] = value]

batch_adjust(current_config, adjustments) ==
    [param \in DOMAIN current_config |->
        IF param \in DOMAIN adjustments THEN adjustments[param]
        ELSE current_config[param]]

\* main.py: the configuration create_configurable_generators hands to the
\* generator, and the two generators the service builds with it
create_configurable_generators(sensitivity_level, custom_adjustments) ==
    batch_adjust(load_profile(SENSITIVITY_PROFILES.balanced, sensitivity_level),
                 custom_adjustments)

pdf_adjustments ==
    [scaling_sensitivity |-> 7, min_font_size |-> 9, short_resume_lines |-> 35,
     medium_resume_lines |-> 50, long_resume_lines |-> 70, spacing_reduction |-> 90]

docx_adjustments ==
    [scaling_sensitivity |-> 6, min_font_size |-> 10, short_resume_lines |-> 40,
     medium_resume_lines |-> 55, spacing_reduction |-> 95]

pdf_generator == create_configurable_generators("conservative", pdf_adjustments)
docx_generator == create_configurable_generators("conservative", docx_adjustments)

\* the line-anchored patterns of the content analysis
IsContentLine(line) == Strip(line) # ""
IsH2Header(line) == StartsWith(line, "##") /\ IsSpace(CharAt(line \o "\n", 3))
IsBulletPoint(line) ==
    LET t == LStrip(line)
    IN Len(t) >= 1 /\ CharAt(t, 1) \in {"-", "*"} /\ IsSpace(CharAt(t \o "\n", 2))
IsJobEntry(line) ==
    LET t == RStrip(line)
    IN /\ Len(t) >= 5
       /\ StartsWith(t, "**")
       /\ SubSeq(t, Len(t) - 1, Len(t)) = "**"
       /\ ~Contains(SubSeq(t, 3, Len(t) - 2), "*")

\* len(markdown_text.split()): the words of every line, counted as the pairs
\* of a line number and a position in that line
CountWords(lines) ==
    Cardinality(UNION {{<<i, j>> : j \in 1..Len(Words(lines[i]))} : i \in 1..Len(lines)})

ContentCounts(lines) ==
    [content_lines |-> Cardinality({i \in 1..Len(lines) : IsContentLine(lines[i])}),
     h2_headers |-> Cardinality({i \in 1..Len(lines) : IsH2Header(lines[i])}),
     bullet_points |-> Cardinality({i \in 1..Len(lines) : IsBulletPoint(lines[i])}),
     job_entries |-> Cardinality({i \in 1..Len(lines) : IsJobEntry(lines[i])}),
     estimated_words |-> CountWords(lines)]

\* the analysis with its density score, given a record of the weights in
\* hundredths and the scaling_sensitivity in tenths
WithDensity(counts, weights) ==
    [content_lines |-> counts.content_lines,
     h2_headers |-> counts.h2_headers,
     bullet_points |-> counts.bullet_points,
     job_entries |-> counts.job_entries,
     estimated_words |-> counts.estimated_words,
     density_score |->
        ((counts.content_lines * weights.line_weight
          + counts.h2_headers * weights.header_weight
          + counts.bullet_points * weights.bullet_weight
          + counts.job_entries * weights.job_entry_weight
          + counts.estimated_words * weights.word_weight)
         * weights.scaling_sensitivity) \div 1000]

analyze_content_with_sensitivity(sensitivity, lines) ==
    WithDensity(ContentCounts(lines), sensitivity)

ConfigurableTier(level, factor, spacing_after, line_spacing, margins) ==
    [level |-> level, factor |-> factor, spacing_after |-> spacing_after,
     line_spacing |-> line_spacing, margins |-> margins]

calculate_configurable_scaling(sensitivity, analysis) ==
    LET content_lines == analysis.content_lines
        tier ==
            IF content_lines <= sensitivity.short_resume_lines
            THEN ConfigurableTier("comfortable", 100, 6, 115, 80)
            ELSE IF content_lines <= sensitivity.medium_resume_lines
            THEN ConfigurableTier("balanced", 90, 4, 110, 70)
            ELSE IF content_lines <= sensitivity.long_resume_lines
            THEN ConfigurableTier("compact", 80, 3, 105, 60)
            ELSE IF content_lines <= sensitivity.very_long_lines
            THEN ConfigurableTier("dense", 70, 2, 100, 50)
            ELSE ConfigurableTier("ultra_dense", 60, 1, 95, 40)
        fonts == sensitivity[tier.level]
        Clamped(size) ==
            Max(sensitivity.min_font_size, Min(sensitivity.max_font_size, size))
    IN [factor |-> tier.factor, level |-> tier.level,
        header |-> Clamped(fonts.header), section |-> Clamped(fonts.section),
        body |-> Clamped(fonts.body), small |-> Clamped(fonts.small),
        line_spacing |-> tier.line_spacing,
        spacing_after |->
            Max(1, (tier.spacing_after * sensitivity.spacing_reduction) \div 100),
        margins |-> tier.margins * sensitivity.margin_reduction]

\* AutoFitPdfGenerator
analyze_content_density(lines) ==
    WithDensity(ContentCounts(lines),
        [line_weight |-> 100, header_weight |-> 200, bullet_weight |-> 150,
         job_entry_weight |-> 0, word_weight |-> 10, scaling_sensitivity |-> 10])

calculate_font_scaling(analysis) ==
    LET content_lines == analysis.content_lines
        scale_factor == IF content_lines <= 35 THEN 100
                        ELSE IF content_lines <= 50 THEN 95
                        ELSE IF content_lines <= 65 THEN 85
                        ELSE IF content_lines <= 80 THEN 75
                        ELSE 65
        size_class == IF content_lines <= 35 THEN "NORMAL"
                      ELSE IF content_lines <= 50 THEN "MEDIUM"
                      ELSE IF content_lines <= 65 THEN "COMPACT"
                      ELSE IF content_lines <= 80 THEN "DENSE"
                      ELSE "ULTRA_DENSE"
    IN [base_factor |-> scale_factor,
        h1_size |-> Max(14, (16 * scale_factor) \div 100),
        h2_size |-> Max(11, (12 * scale_factor) \div 100),
        h3_size |-> Max(10, (11 * scale_factor) \div 100),
        body_size |-> Max(10, (12 * scale_factor) \div 100),
        small_size |-> Max(7, (9 * scale_factor) \div 100),
        contact_size |-> Max(7, (10 * scale_factor) \div 100),
        line_height |-> Max(120, (140 * scale_factor) \div 100),
        margin_factor |-> Max(60, scale_factor),
        spacing_factor |-> Max(50, scale_factor),
        size_class |-> size_class]

\* AutoFitDocxGenerator
analyze_docx_content(lines) ==
    WithDensity(ContentCounts(lines),
        [line_weight |-> 120, header_weight |-> 250, bullet_weight |-> 180,
         job_entry_weight |-> 300, word_weight |-> 12, scaling_sensitivity |-> 10])

DocxTier(factor, class, fonts, line_spacing, spacing_after, margins) ==
    [factor |-> factor, class |-> class, header |-> fonts.header,
     section |-> fonts.section, body |-> fonts.body, small |-> fonts.small,
     line_spacing |-> line_spacing, spacing_after |-> spacing_after,
     margins |-> margins]

calculate_docx_scaling(analysis) ==
    LET content_lines == analysis.content_lines
    IN IF content_lines <= 25
       THEN DocxTier(100, "COMFORTABLE", TierFonts(18, 12, 10, 9), 115, 6, 80)
       ELSE IF content_lines <= 40
       THEN DocxTier(90, "BALANCED", TierFonts(16, 11, 9, 8), 110, 4, 70)
       ELSE IF content_lines <= 60
       THEN DocxTier(80, "COMPACT", TierFonts(15, 10, 8, 7), 105, 3, 60)
       ELSE IF content_lines <= 80
       THEN DocxTier(70, "DENSE", TierFonts(14, 9, 7, 6), 100, 2, 50)
       ELSE DocxTier(60, "ULTRA_DENSE", TierFonts(13, 9, 7, 6), 95, 1, 40)

(***************************************************************************)
(* AdvancedUIAgent (src/advanced_ui_agent.py)                              *)
(***************************************************************************)

\* [line.strip() for line in text.split('\n') if line.strip()]
RECURSIVE StrippedLines(_)
StrippedLines(lines) ==
    IF Len(lines) = 0 THEN <<>>
    ELSE (IF Len(Strip(Head(lines))) > 0 THEN <<Strip(Head(lines))>> ELSE <<>>)
         \o StrippedLines(Tail(lines))

\* number of the words of a sequence of words that do not start with '#'
RECURSIVE CountContent(_)
CountContent(words) ==
    IF Len(words) = 0 THEN 0
    ELSE (IF StartsWith(Head(words), "#") THEN 0 ELSE 1) + CountContent(Tail(words))

\* len([word for line in lines for word in line.split() if not word.startswith('#')])
RECURSIVE content_words_of(_)
content_words_of(lines) ==
    IF Len(lines) = 0 THEN 0
    ELSE CountContent(Words(Head(lines))) + content_words_of(Tail(lines))

\* the word count of _content_integrity_check: words outside heading markup
content_words(text) == content_words_of(StrippedLines(Split(text, "\n")))

\* abs(o - m) / max(o, 1) < 0.1, in integers: 10 * |o - m| < max(o, 1)
_content_integrity_check(original, modified) ==
    LET original_content_words == content_words(original)
        modified_content_words == content_words(modified)
    IN 10 * Abs(original_content_words - modified_content_words)
          < Max(original_content_words, 1)

\* apply_ui_modifications for one outcome of the chat-completion call:
\* response.raised, or response.content (an Optional[str])
apply_ui_modifications(markdown_content, response) ==
    IF response.raised THEN markdown_content
    ELSE LET modified_content ==
                 IF Truthy(response.content) THEN response.content[1]
                 ELSE markdown_content
         IN IF _content_integrity_check(markdown_content, modified_content)
            THEN modified_content
            ELSE markdown_content

(***************************************************************************)
(* agents.py: the language-model client and the two agents                 *)
(*                                                                         *)
(* One call of the chat-completion service has a reply: kind "raise" (the  *)
(* call raises), "ready" / "more" (a data-gathering answer, ready to       *)
(* generate or not), "resume" (a generated resume, content its markdown),  *)
(* "none" (free text: no parsed object, not JSON).  A script is the        *)
(* sequence of replies to the calls one operation makes, in call order.    *)
(***************************************************************************)
Apology ==
    "I apologize, but I'm experiencing technical difficulties. Please try again later."

LLMRaise == [kind |-> "raise", content |-> ""]

Raised(script, n) == Cardinality({i \in 1..n : script[i].kind = "raise"})

\* OpenAIClient.get_completion: an error becomes the apology text
get_completion(reply) ==
    IF reply.kind = "raise" THEN Apology ELSE reply.content

\* OpenAIClient.get_parsed_completion: the parsed object of the first call;
\* when that call raises, the JSON of a second call, which may raise
get_parsed_completion(first, second) ==
    IF first.kind # "raise"
    THEN [raised |-> FALSE, calls |-> 1,
          parsed |-> IF first.kind = "none" THEN None
                     ELSE Some([is_model |-> TRUE, reply |-> first])]
    ELSE IF second.kind \in {"raise", "none"}
    THEN [raised |-> TRUE, calls |-> 2, parsed |-> None]
    ELSE [raised |-> FALSE, calls |-> 2,
          parsed |-> Some([is_model |-> FALSE, reply |-> second])]

\* OpenAIClient.get_structured_completion: the JSON of the content, or None
get_structured_completion(reply) ==
    IF reply.kind \in {"raise", "none"} THEN None ELSE Some(reply)

EmptyResumeData == [name |-> None]
CollectedData == [name |-> Some("Jane Doe")]
basic_data == [name |-> Some("Sample User")]

ReadyText ==
    "Perfect! I have all the information needed. I'm now generating your professional resume with modern styling and visual elements. Please wait a moment..."
SampleText ==
    "Great! I'm generating a sample resume for you with modern styling. You can customize it later..."

AgentResult(response_text, resume_data, script, calls) ==
    [response_text |-> response_text, resume_data |-> resume_data,
     llm_calls |-> calls, llm_errors |-> Raised(script, calls)]

\* DataGatheringAgent.process_message
process_message(message, script) ==
    LET p == get_parsed_completion(script[1], script[2])
        answered == ~p.raised /\ p.parsed # None /\ p.parsed[1].is_model
        n == p.calls + 1
        structured_response == get_structured_completion(script[n])
        response == get_completion(script[n + 1])
    IN IF answered
       THEN IF p.parsed[1].reply.kind = "ready"
            THEN AgentResult(ReadyText, Some(CollectedData), script, p.calls)
            ELSE AgentResult(p.parsed[1].reply.content, None, script, p.calls)
       ELSE IF structured_response # None
       THEN IF structured_response[1].kind = "ready"
            THEN AgentResult(ReadyText, Some(CollectedData), script, n)
            ELSE AgentResult(structured_response[1].content, None, script, n)
       ELSE IF \/ Contains(Lower(response), "ready_to_generate")
               \/ Contains(Lower(message), "generate")
       THEN AgentResult(SampleText, Some(basic_data), script, n + 1)
       ELSE AgentResult(response, None, script, n + 1)

orchestrator_modification_keywords ==
    {"change", "modify", "update", "font", "style", "color", "layout", "format",
     "make it", "can you"}

ReadyMarker == "READY_TO_GENERATE_RESUME:"

\* AIAgentOrchestrator.process_chat_message
process_chat_message(message, existing_resume_data, script) ==
    LET is_modification_request ==
            ContainsAny(Lower(message), orchestrator_modification_keywords)
        r == process_message(message, script)
        clean_response == Strip(Split(r.response_text, ReadyMarker)[1])
    IN IF Truthy(existing_resume_data.name) /\ is_modification_request
       THEN [response_text |->
                 "Perfect! I understand you want to modify your existing resume. I'm regenerating it with your requested changes: '"
                 \o message \o "'. Please wait a moment...",
             resume_data |-> Some(existing_resume_data),
             llm_calls |-> 0, llm_errors |-> 0]
       ELSE IF r.resume_data # None /\ Contains(r.response_text, ReadyMarker)
       THEN [r EXCEPT !.response_text =
                 IF clean_response = ""
                 THEN "Great! I have all the information I need. I'm now generating your professional resume."
                 ELSE clean_response]
       ELSE r

\* ResumeGeneratorAgent.generate_resume, reached through
\* AIAgentOrchestrator.generate_resume_markdown: it never raises
generate_resume(script) ==
    LET p == get_parsed_completion(script[1], script[2])
        n == p.calls + 1
    IN IF ~p.raised /\ p.parsed # None /\ p.parsed[1].is_model
       THEN [markdown |-> p.parsed[1].reply.content,
             llm_calls |-> p.calls, llm_errors |-> Raised(script, p.calls)]
       ELSE [markdown |-> get_completion(script[n]),
             llm_calls |-> n, llm_errors |-> Raised(script, n)]

(***************************************************************************)
(* Inputs                                                                  *)
(***************************************************************************)

\* all concatenations of exactly n elements of a set of strings
RECURSIVE Concats(_, _)
Concats(parts, n) ==
    IF n = 0 THEN {""}
    ELSE {a \o b : a \in parts, b \in Concats(parts, n - 1)}

\* all space-joined phrases of exactly n elements of a set of phrases
RECURSIVE Phrases(_, _)
Phrases(parts, n) ==
    IF n = 1 THEN parts
    ELSE {a \o " " \o b : a \in parts, b \in Phrases(parts, n - 1)}

MaxBlocks == 3
MaxApplications == 2
MaxPhrases == 2
MaxWords == 12

\* the building blocks of the documents the transforms are applied to
DocBlocks ==
    {"# Jane Doe\n", "## Skills\n", "\n", "Python Java\n", "jane@x.io\n",
     "(555) 1234\n", "## " \o GradCap \o " Education\nBSc\n"}

Documents == UNION {Concats(DocBlocks, n) : n \in 1..MaxBlocks}

\* documents with a run of three blank lines between two lines of text
SpacedDocuments ==
    {before \o "\n\n\n" \o after :
        before \in {"# Jane Doe\n", "Python Java\n"},
        after \in {"## Skills\n", "Python Java\n"}}

\* the requests the transforms are applied with, one or more per branch of
\* apply_modification
ModQueries ==
    {"make the name bold", "make name italic font", "underline the name font",
     "add blue color to headers", "make it more compact", "compact layout",
     "more space spacing", "make name larger size", "professional style",
     "modern style", "convert education to table format", "hello",
     "tighter with less space", "shorter layout"}

\* the phrases the classified messages are built from
MessagePhrases ==
    {"make the name bold", "make headers blue", "make headers bold",
     "and add my internship at Acme", "I worked at Acme for 3 years",
     "add experience", "add new", "remove", "delete", "new job", "new project",
     "change company", "change position", "generate resume", "in modern style",
     "use a compact format"}

Messages == UNION {Phrases(MessagePhrases, n) : n \in 1..MaxPhrases}

\* the replies of the semantic classifier: every kind, and for an object every
\* combination of a query_type field and a confidence field
ConfidenceNumbers == {-20, 0, 50, 95, 100, 150}

ResponseFields ==
    [query_type : {[tag |-> "missing"], [tag |-> "text"],
                   [tag |-> "string", value |-> "ui_modification"],
                   [tag |-> "string", value |-> "unclear"]},
     confidence : {[tag |-> "missing"], [tag |-> "null"], [tag |-> "text"]}
                  \cup {[tag |-> "number", value |-> n] : n \in ConfidenceNumbers}]

AIResponses ==
    {[kind |-> k] : k \in {"raise", "none", "text", "array"}}
    \cup {[kind |-> "object", query_type |-> f.query_type,
           confidence |-> f.confidence] : f \in ResponseFields}

\* the documents given to the fitters: a block of five content lines, terse
\* or wordy, repeated; 4 copies are 20 content lines and 18 copies are 90
MaxFits == 2

TerseBlock == <<"Go", "C", "SQL", "R", "", "Lua">>

WordyBlock ==
    <<"## Work", "**Lead Dev**", "- built a b c d e f g h", "- led i j k l m n o p",
      "Acme Co 2019 to 2023 in q r s t u v">>

FitCopies == {4, 6, 9, 13, 18, 19}

RECURSIVE Copies(_, _)
Copies(block, n) == IF n = 0 THEN <<>> ELSE block \o Copies(block, n - 1)

FitDocuments == {Copies(block, n) : block \in {TerseBlock, WordyBlock}, n \in FitCopies}

\* the profile names load_profile is called with, the single adjustments
\* adjust_sensitivity is called with and the dictionaries given to batch_adjust
ProfileNames == {"conservative", "aggressive", "balanced", "relaxed"}

Adjustments == {<<"min_font_size", 12>>, <<"max_font_size", 8>>, <<"font_floor", 9>>}

BatchAdjustments == {pdf_adjustments, docx_adjustments}

\* the messages of a session that are classified in turn: statements of an
\* employment detail, cosmetic requests and others
MaxTurns == 2

EmploymentMessages ==
    {"I worked at Acme for 3 years", "I worked at Redhat for 3 years",
     "I worked at Acme while studying", "I worked at Acme and was hired as lead",
     "worked at Initech as an engineer"}

ConversationMessages ==
    EmploymentMessages
    \cup {"make the name bold", "make headers blue", "use a compact format",
          "in modern style", "hello", "generate resume", "add experience",
          "make headers blue and add my experience at Apple",
          "make the name bold and blue and add a title"}

\* existing_resume values: None, the empty string, a document
ExistingResumes == {None, Some(""), Some("# Jane Doe\n## Skills\nPython Java\n")}

\* n words, one per line or all on one line, under a heading or not
RECURSIVE WordsText(_, _)
WordsText(n, sep) == IF n = 0 THEN "" ELSE "w" \o sep \o WordsText(n - 1, sep)

UIDocuments ==
    {h \o WordsText(n, sep) :
        h \in {"", "# Jane\n"}, n \in 0..MaxWords, sep \in {" ", "\n"}}

\* outcomes of the chat-completion call of apply_ui_modifications
UIResponses ==
    {[raised |-> TRUE, content |-> None], [raised |-> FALSE, content |-> None]}
    \cup {[raised |-> FALSE, content |-> Some(d)] : d \in UIDocuments}

\* the sessions that exist, and a session id no session has
SessionIds == {"s1", "s2"}
UnknownSession == "s0"

MaxRequests == 2

\* the /chat messages
ChatMessages ==
    {"make the name bold",
     "add blue color to headers",
     "make headers bold and add my internship at Acme",
     "make headers blue and add my internship at Acme",
     "generate resume in modern style",
     "add experience at Acme"}

\* the resumes the language model writes
GenDocs == {"# Jane Doe\n## Skills\nPython Java\n", "# Jane Doe\n## Skills\nPython\n"}

Script(replies) == replies \o [i \in 1..(4 - Len(replies)) |-> LLMRaise]

MoreText == "Could you tell me more about your experience?"

\* replies to the calls of process_chat_message: an answer at once, an
\* answer after two failed calls, no answer at all
GatherScripts ==
    {Script(<<[kind |-> "ready", content |-> ""]>>),
     Script(<<[kind |-> "more", content |-> MoreText]>>),
     Script(<<LLMRaise, LLMRaise, [kind |-> "ready", content |-> ""]>>),
     Script(<<>>)}

\* replies to the calls of generate_resume: a resume at once, a resume as
\* free text after two failed calls, no answer at all
GenerateScripts ==
    {Script(<<[kind |-> "resume", content |-> d]>>) : d \in GenDocs}
    \cup {Script(<<LLMRaise, LLMRaise, [kind |-> "none", content |-> d]>>) : d \in GenDocs}
    \cup {Script(<<>>)}

\* outcomes of rendering one document to PDF and to DOCX: both generators
\* return a non-empty base64 string or raise
RenderOutcomes == {"ok", "pdf_error", "docx_error"}

(***************************************************************************)
(* State                                                                   *)
(***************************************************************************)
VARIABLES
    query,            \* the message under examination
    resume_history,   \* the document, and the results of applying query to it
    existing,         \* the existing_resume can_handle_modification is given
    decision,         \* the results of the decision functions on query
    ui,               \* one call of AdvancedUIAgent.apply_ui_modifications
    sessions,         \* session_manager's store: session id -> SessionData
    requests,         \* the /chat requests handled, each with its background task
    preview,          \* per session, the markdown of the last resume_pdf_update
    classification,   \* one reply of the semantic classifier and the labels built on it
    fitter,           \* a control panel or an auto-fit generator, and the documents it fitted
    conversation      \* the messages of one session classified so far, with their labels

function_vars ==
    <<query, resume_history, existing, decision, ui, classification, fitter,
      conversation>>
server_vars == <<sessions, requests, preview,
                 classification, fitter, conversation>>
vars == <<query, resume_history, existing, decision, ui, sessions, requests, preview,
          classification, fitter, conversation>>

Last(xs) == xs[Len(xs)]

NoDecision == [can_handle |-> <<>>, impact |-> <<>>, quick |-> <<>>, fallback |-> <<>>]
NoClassification == [response |-> [kind |-> "raise"], hybrid |-> <<>>, pure |-> <<>>]
NoFitter == [kind |-> "none", sensitivity |-> <<>>, fits |-> <<>>]
NoUI == [original |-> "", response |-> [raised |-> TRUE, content |-> None], result |-> None]

ModifierIdle == resume_history = <<>>
PlannerIdle == existing = None /\ decision = NoDecision
UIIdle == ui = NoUI
ClassifierIdle == classification = NoClassification
FitterIdle == fitter = NoFitter
ConversationIdle == conversation = <<>>
FunctionsIdle ==
    /\ query = ""
    /\ ModifierIdle /\ PlannerIdle /\ UIIdle /\ ClassifierIdle /\ FitterIdle
    /\ ConversationIdle
ServerIdle ==
    /\ sessions = [id \in {} |-> None]
    /\ requests = <<>>
    /\ preview = [id \in {} |-> None]

(***************************************************************************)
(* ResumeModifier.apply_modification applied to a document, and again to   *)
(* its own result.                                                         *)
(***************************************************************************)
ApplyModification ==
    /\ Len(resume_history) >= 1
    /\ Len(resume_history) <= MaxApplications
    /\ resume_history' =
           Append(resume_history, apply_modification(query, Last(resume_history)))
    /\ UNCHANGED <<query, existing, decision, ui, sessions, requests, preview,
                 classification, fitter, conversation>>

InitModifier ==
    /\ query \in ModQueries
    /\ resume_history \in {<<d>> : d \in Documents \cup SpacedDocuments}
    /\ PlannerIdle /\ UIIdle /\ ClassifierIdle /\ FitterIdle /\ ConversationIdle /\ ServerIdle

NextModifier == ApplyModification

SpecModifier == InitModifier /\ [][NextModifier]_vars

(***************************************************************************)
(* The decision functions applied to a message.                            *)
(***************************************************************************)
CanHandle ==
    /\ query # ""
    /\ decision.can_handle = <<>>
    /\ decision' = [decision EXCEPT
                       !.can_handle = <<can_handle_modification(query, existing)>>]
    /\ UNCHANGED <<query, resume_history, existing, ui, sessions, requests, preview,
                 classification, fitter, conversation>>

EstimateImpact ==
    /\ query # ""
    /\ decision.impact = <<>>
    /\ decision' = [decision EXCEPT !.impact = <<estimate_change_impact(query)>>]
    /\ UNCHANGED <<query, resume_history, existing, ui, sessions, requests, preview,
                 classification, fitter, conversation>>

QuickClassify ==
    /\ query # ""
    /\ decision.quick = <<>>
    /\ decision' = [decision EXCEPT !.quick = <<_quick_regex_classify(query)>>]
    /\ UNCHANGED <<query, resume_history, existing, ui, sessions, requests, preview,
                 classification, fitter, conversation>>

FallbackClassify ==
    /\ query # ""
    /\ decision.fallback = <<>>
    /\ decision' = [decision EXCEPT !.fallback = <<_fallback_classify_query(query)>>]
    /\ UNCHANGED <<query, resume_history, existing, ui, sessions, requests, preview,
                 classification, fitter, conversation>>

InitPlanner ==
    /\ query \in Messages
    /\ existing \in ExistingResumes
    /\ decision = NoDecision
    /\ ModifierIdle /\ UIIdle /\ ClassifierIdle /\ FitterIdle /\ ConversationIdle /\ ServerIdle

NextPlanner == CanHandle \/ EstimateImpact \/ QuickClassify \/ FallbackClassify

SpecPlanner == InitPlanner /\ [][NextPlanner]_vars

(***************************************************************************)
(* AdvancedUIAgent.apply_ui_modifications on one outcome of its call.      *)
(***************************************************************************)
ApplyUIModifications ==
    /\ ui.result = None
    /\ ui' = [ui EXCEPT !.result = Some(apply_ui_modifications(ui.original, ui.response))]
    /\ UNCHANGED <<query, resume_history, existing, decision, sessions, requests, preview,
                 classification, fitter, conversation>>

InitUIAgent ==
    /\ ui \in [original : UIDocuments, response : UIResponses, result : {None}]
    /\ query = ""
    /\ ModifierIdle /\ PlannerIdle /\ ClassifierIdle /\ FitterIdle /\ ConversationIdle /\ ServerIdle

NextUIAgent == ApplyUIModifications

SpecUIAgent == InitUIAgent /\ [][NextUIAgent]_vars

(***************************************************************************)
(* The classifiers given one message and one reply of the model they call. *)
(***************************************************************************)
HybridClassify ==
    /\ classification.hybrid = None
    /\ classification' =
           [classification EXCEPT
               !.hybrid = Some(hybrid_classify_query(query, classification.response))]
    /\ UNCHANGED <<query, resume_history, existing, decision, ui, sessions, requests,
                   preview, fitter, conversation>>

PureClassify ==
    /\ classification.pure = None
    /\ classification' =
           [classification EXCEPT
               !.pure = Some(pure_classify_query(query, classification.response))]
    /\ UNCHANGED <<query, resume_history, existing, decision, ui, sessions, requests,
                   preview, fitter, conversation>>

InitClassifier ==
    /\ query \in Messages
    /\ classification \in [response : AIResponses, hybrid : {None}, pure : {None}]
    /\ ModifierIdle /\ PlannerIdle /\ UIIdle /\ FitterIdle /\ ConversationIdle /\ ServerIdle

NextClassifier == HybridClassify \/ PureClassify

SpecClassifier == InitClassifier /\ [][NextClassifier]_vars

(***************************************************************************)
(* The messages of one session given to the keyword classifiers one after  *)
(* the other; each call receives the earlier messages as its context.      *)
(***************************************************************************)
ClassifyMessage ==
    /\ Len(conversation) < MaxTurns
    /\ \E message \in ConversationMessages :
           conversation' = Append(conversation,
               [message |-> message,
                context |-> [i \in 1..Len(conversation) |-> conversation[i].message],
                quick |-> _quick_regex_classify(message),
                fallback |-> _fallback_classify_query(message),
                ui_request |-> is_ui_modification_request(message)])
    /\ UNCHANGED <<query, resume_history, existing, decision, ui, sessions, requests,
                   preview, classification, fitter>>

InitConversation ==
    /\ conversation = <<>>
    /\ query = ""
    /\ ModifierIdle /\ PlannerIdle /\ UIIdle /\ ClassifierIdle /\ FitterIdle
    /\ ServerIdle

NextConversation == ClassifyMessage

SpecConversation == InitConversation /\ [][NextConversation]_vars

(***************************************************************************)
(* A SensitivityControlPanel being configured, the generator it creates,   *)
(* and the three generators built without a panel, each fitting documents. *)
(***************************************************************************)
LoadProfile ==
    /\ fitter.kind = "panel"
    /\ \E profile_name \in ProfileNames :
           fitter' = [fitter EXCEPT
                         !.sensitivity = load_profile(fitter.sensitivity, profile_name)]
    /\ UNCHANGED <<query, resume_history, existing, decision, ui, sessions, requests,
                   preview, classification, conversation>>

AdjustSensitivity ==
    /\ fitter.kind = "panel"
    /\ \E adjustment \in Adjustments :
           fitter' = [fitter EXCEPT
                         !.sensitivity = adjust_sensitivity(fitter.sensitivity,
                                             adjustment[1], adjustment[2])]
    /\ UNCHANGED <<query, resume_history, existing, decision, ui, sessions, requests,
                   preview, classification, conversation>>

BatchAdjust ==
    /\ fitter.kind = "panel"
    /\ \E adjustments \in BatchAdjustments :
           fitter' = [fitter EXCEPT
                         !.sensitivity = batch_adjust(fitter.sensitivity, adjustments)]
    /\ UNCHANGED <<query, resume_history, existing, decision, ui, sessions, requests,
                   preview, classification, conversation>>

CreateGenerator ==
    /\ fitter.kind = "panel"
    /\ fitter' = [fitter EXCEPT !.kind = "configurable"]
    /\ UNCHANGED <<query, resume_history, existing, decision, ui, sessions, requests,
                   preview, classification, conversation>>

\* the analysis of a document and the scale computed from it
Fitted(kind, sensitivity, lines) ==
    LET analysis ==
            IF kind = "pdf" THEN analyze_content_density(lines)
            ELSE IF kind = "docx" THEN analyze_docx_content(lines)
            ELSE analyze_content_with_sensitivity(sensitivity, lines)
    IN [analysis |-> analysis,
        scale |-> IF kind = "pdf" THEN calculate_font_scaling(analysis)
                  ELSE IF kind = "docx" THEN calculate_docx_scaling(analysis)
                  ELSE calculate_configurable_scaling(sensitivity, analysis)]

Fit ==
    /\ fitter.kind \in {"configurable", "pdf", "docx"}
    /\ Len(fitter.fits) < MaxFits
    /\ \E lines \in FitDocuments :
           fitter' = [fitter EXCEPT
                         !.fits = Append(@, Fitted(fitter.kind, fitter.sensitivity, lines))]
    /\ UNCHANGED <<query, resume_history, existing, decision, ui, sessions, requests,
                   preview, classification, conversation>>

InitFitter ==
    /\ fitter \in {[kind |-> "panel", sensitivity |-> SENSITIVITY_PROFILES.balanced,
                     fits |-> <<>>],
                    [kind |-> "configurable", sensitivity |-> default_sensitivity,
                     fits |-> <<>>],
                    [kind |-> "pdf", sensitivity |-> <<>>, fits |-> <<>>],
                    [kind |-> "docx", sensitivity |-> <<>>, fits |-> <<>>]}
    /\ query = ""
    /\ ModifierIdle /\ PlannerIdle /\ UIIdle /\ ClassifierIdle /\ ConversationIdle
    /\ ServerIdle

NextFitter == LoadProfile \/ AdjustSensitivity \/ BatchAdjust \/ CreateGenerator \/ Fit

SpecFitter == InitFitter /\ [][NextFitter]_vars

(***************************************************************************)
(* The server: session_manager.py and the /chat endpoint of main.py with   *)
(* its two background tasks.  Requests carry no attachments.  The client   *)
(* of the language model is synchronous, so a coroutine is suspended only  *)
(* at a websocket send: one action is the code between two sends, and the  *)
(* event loop may run any handler or task that is ready.                   *)
(***************************************************************************)
NewSession == [user_data |-> EmptyResumeData, chat_history |-> <<>>, resume_markdown |-> None]

\* a session after one generation: the request "generate resume in modern
\* style", answered at once, generated and rendered
GeneratedSession ==
    [user_data |-> CollectedData,
     chat_history |-> <<[role |-> "user", content |-> "generate resume in modern style"],
                        [role |-> "assistant", content |-> ReadyText]>>,
     resume_markdown |-> Some("# Jane Doe\n## Skills\nPython Java\n")]

\* SessionManager.get_session
get_session(store, session_id) ==
    IF session_id \in DOMAIN store THEN Some(store[session_id]) ELSE None

\* update_session writing the data under every key of the store
update_session_every_key(store, session_id, session_data) ==
    [id \in DOMAIN store |-> session_data]

\* SessionManager.update_session
update_session(store, session_id, session_data) ==
    [store EXCEPT ![session_id] = session_data]

\* SessionManager.add_chat_message
add_chat_message(store, session_id, message) ==
    LET session == get_session(store, session_id)
    IN IF session = None THEN store
       ELSE update_session(store, session_id,
                [session[1] EXCEPT !.chat_history = Append(@, message)])

\* SessionManager.update_resume_data
update_resume_data(store, session_id, resume_data) ==
    LET session == get_session(store, session_id)
    IN IF session = None THEN store
       ELSE update_session(store, session_id,
                [session[1] EXCEPT !.user_data = resume_data])

\* update_resume_markdown storing the document in a session whose collected
\* data is reset
update_resume_markdown_resetting_data(store, session_id, markdown) ==
    LET session == get_session(store, session_id)
    IN IF session = None THEN store
       ELSE update_session(store, session_id,
                [session[1] EXCEPT !.resume_markdown = Some(markdown),
                                   !.user_data = EmptyResumeData])

\* SessionManager.update_resume_markdown
update_resume_markdown(store, session_id, markdown) ==
    LET session == get_session(store, session_id)
    IN IF session = None THEN store
       ELSE update_session(store, session_id,
                [session[1] EXCEPT !.resume_markdown = Some(markdown)])

\* The SessionData that a caller of get_session holds once the store has
\* been written to again: the Redis backend returned a copy deserialised
\* from the stored JSON, the in-memory fallback returned the stored object
\* itself, which add_chat_message and update_* then change in place.
held_session(backend, session, store, session_id) ==
    IF backend = "redis" THEN session ELSE store[session_id]

CheckMark == "!"    \* U+2705

\* one handled request: what chat_endpoint read and decided, the position
\* of the background task it created, and the document the request stored
\* as the session's resume_markdown
Frame(session_id, message) ==
    [session_id |-> session_id, message |-> message, status |-> 200,
     path |-> "none", existing_resume |-> None, modified_resume |-> None,
     impact |-> "", resume_data |-> None, task |-> "none", pc |-> "done",
     markdown |-> None, stored |-> None, llm_calls |-> 0, llm_errors |-> 0,
     generation_calls |-> 0, chat_history |-> None]

\* chat_endpoint, up to its websocket send
chat_endpoint(session_id, message, script) ==
    /\ Len(requests) < MaxRequests
    /\ LET session == get_session(sessions, session_id) IN
       IF session = None
       THEN \* the 404 raised inside the try block is caught and replaced
            /\ requests' = Append(requests,
                   [Frame(session_id, message) EXCEPT !.status = 500])
            /\ UNCHANGED sessions
       ELSE
       LET with_user == add_chat_message(sessions, session_id,
                            [role |-> "user", content |-> message])
           existing_resume == session[1].resume_markdown
           frame == [Frame(session_id, message) EXCEPT
                        !.existing_resume = existing_resume]
       IN IF /\ Truthy(existing_resume)
             /\ can_handle_modification(message, existing_resume)
          THEN LET impact == estimate_change_impact(message)
                   modified_resume == apply_modification(message, existing_resume[1])
                   response_text ==
                       CheckMark \o " Applied your " \o impact \o " modification: '"
                       \o message \o "'. Updating your resume now..."
               IN /\ sessions' = add_chat_message(
                          update_resume_markdown(with_user, session_id, modified_resume),
                          session_id,
                          [role |-> "assistant", content |-> response_text])
                  /\ requests' = Append(requests,
                         [frame EXCEPT !.path = "quick", !.impact = impact,
                                       !.modified_resume = Some(modified_resume),
                                       !.stored = Some(modified_resume),
                                       !.task = "quick", !.pc = "created"])
          ELSE LET r == process_chat_message(message, session[1].user_data, script)
                   with_ai == add_chat_message(with_user, session_id,
                                  [role |-> "assistant", content |-> r.response_text])
               IN /\ sessions' =
                         IF r.resume_data # None
                         THEN update_resume_data(with_ai, session_id, r.resume_data[1])
                         ELSE with_ai
                  /\ requests' = Append(requests,
                         [frame EXCEPT !.path = "full",
                                       !.chat_history = Some(
                                           [redis |-> held_session("redis", session[1],
                                                with_user, session_id).chat_history,
                                            memory |-> held_session("memory", session[1],
                                                with_user, session_id).chat_history]),
                                       !.resume_data = r.resume_data,
                                       !.llm_calls = r.llm_calls,
                                       !.llm_errors = r.llm_errors,
                                       !.task = IF r.resume_data # None
                                                THEN "generate" ELSE "none",
                                       !.pc = IF r.resume_data # None
                                              THEN "created" ELSE "done"])
    /\ UNCHANGED preview
    /\ UNCHANGED function_vars

ChatEndpoint ==
    \E session_id \in SessionIds \cup {UnknownSession}, message \in ChatMessages,
       script \in GatherScripts :
        chat_endpoint(session_id, message, script)

\* the background task of request i is suspended at position pc
TaskAt(i, task, pc) ==
    /\ i \in 1..Len(requests)
    /\ requests[i].task = task
    /\ requests[i].pc = pc

Goto(i, pc) == requests' = [requests EXCEPT ![i].pc = pc]

\* apply_quick_modification: the task starts and sends its status update
QuickStart(i) ==
    /\ TaskAt(i, "quick", "created")
    /\ Goto(i, "applying")
    /\ UNCHANGED <<sessions, preview>>
    /\ UNCHANGED function_vars

\* apply_quick_modification: renders the modified resume and sends the PDF;
\* a generator that raises leads to the error status update
QuickRender(i, outcome) ==
    /\ TaskAt(i, "quick", "applying")
    /\ IF outcome = "ok"
       THEN /\ Goto(i, "pdf_update")
            /\ preview' = [preview EXCEPT ![requests[i].session_id] =
                               requests[i].modified_resume]
       ELSE /\ Goto(i, "error")
            /\ UNCHANGED preview
    /\ UNCHANGED sessions
    /\ UNCHANGED function_vars

\* apply_quick_modification: sends the DOCX
QuickDocx(i) ==
    /\ TaskAt(i, "quick", "pdf_update")
    /\ Goto(i, "docx_update")
    /\ UNCHANGED <<sessions, preview>>
    /\ UNCHANGED function_vars

\* apply_quick_modification: sends the completion status update
QuickComplete(i) ==
    /\ TaskAt(i, "quick", "docx_update")
    /\ Goto(i, "complete")
    /\ UNCHANGED <<sessions, preview>>
    /\ UNCHANGED function_vars

\* apply_quick_modification: returns after its last send
QuickReturn(i) ==
    /\ i \in 1..Len(requests)
    /\ requests[i].task = "quick"
    /\ requests[i].pc \in {"complete", "error"}
    /\ Goto(i, "done")
    /\ UNCHANGED <<sessions, preview>>
    /\ UNCHANGED function_vars

\* generate_and_notify_resume: the task starts and sends its status update
GenerateStart(i) ==
    /\ TaskAt(i, "generate", "created")
    /\ Goto(i, "starting")
    /\ UNCHANGED <<sessions, preview>>
    /\ UNCHANGED function_vars

\* generate_and_notify_resume: generates the markdown and sends the
\* converting status update
GenerateMarkdown(i, script) ==
    /\ TaskAt(i, "generate", "starting")
    /\ LET g == generate_resume(script)
       IN requests' = [requests EXCEPT
              ![i].pc = "converting",
              ![i].markdown = Some(g.markdown),
              ![i].llm_calls = @ + g.llm_calls,
              ![i].llm_errors = @ + g.llm_errors,
              ![i].generation_calls = @ + g.llm_calls]
    /\ UNCHANGED <<sessions, preview>>
    /\ UNCHANGED function_vars

\* generate_and_notify_resume: renders the markdown, stores it in the
\* session and sends the PDF; a generator that raises leads to the error
\* notification, nothing stored
GenerateRender(i, outcome) ==
    /\ TaskAt(i, "generate", "converting")
    /\ IF outcome = "ok"
       THEN /\ sessions' = update_resume_markdown(sessions, requests[i].session_id,
                               requests[i].markdown[1])
            /\ requests' = [requests EXCEPT ![i].pc = "pdf_update",
                                             ![i].stored = requests[i].markdown]
            /\ preview' = [preview EXCEPT ![requests[i].session_id] =
                               requests[i].markdown]
       ELSE /\ Goto(i, "error")
            /\ UNCHANGED <<sessions, preview>>
    /\ UNCHANGED function_vars

\* generate_and_notify_resume: sends the DOCX
GenerateDocx(i) ==
    /\ TaskAt(i, "generate", "pdf_update")
    /\ Goto(i, "docx_update")
    /\ UNCHANGED <<sessions, preview>>
    /\ UNCHANGED function_vars

\* generate_and_notify_resume: sends the success message
GenerateSuccess(i) ==
    /\ TaskAt(i, "generate", "docx_update")
    /\ Goto(i, "success")
    /\ UNCHANGED <<sessions, preview>>
    /\ UNCHANGED function_vars

\* generate_and_notify_resume, except branch: generates a fallback
\* markdown and sends it as resume_update, without storing it
GenerateFallback(i, script) ==
    /\ TaskAt(i, "generate", "error")
    /\ LET g == generate_resume(script)
       IN requests' = [requests EXCEPT
              ![i].pc = "fallback",
              ![i].llm_calls = @ + g.llm_calls,
              ![i].llm_errors = @ + g.llm_errors,
              ![i].generation_calls = @ + g.llm_calls]
    /\ UNCHANGED <<sessions, preview>>
    /\ UNCHANGED function_vars

\* generate_and_notify_resume: returns after its last send
GenerateReturn(i) ==
    /\ i \in 1..Len(requests)
    /\ requests[i].task = "generate"
    /\ requests[i].pc \in {"success", "fallback"}
    /\ Goto(i, "done")
    /\ UNCHANGED <<sessions, preview>>
    /\ UNCHANGED function_vars

ApplyQuickModification ==
    \E i \in 1..MaxRequests :
        \/ QuickStart(i)
        \/ \E outcome \in RenderOutcomes : QuickRender(i, outcome)
        \/ QuickDocx(i)
        \/ QuickComplete(i)
        \/ QuickReturn(i)

GenerateAndNotifyResume ==
    \E i \in 1..MaxRequests :
        \/ GenerateStart(i)
        \/ \E script \in GenerateScripts : GenerateMarkdown(i, script)
        \/ \E outcome \in RenderOutcomes : GenerateRender(i, outcome)
        \/ GenerateDocx(i)
        \/ GenerateSuccess(i)
        \/ \E script \in GenerateScripts : GenerateFallback(i, script)
        \/ GenerateReturn(i)

\* one session that holds a generated resume and one new session
Init ==
    /\ sessions = [id \in SessionIds |->
                       IF id = "s1" THEN GeneratedSession ELSE NewSession]
    /\ requests = <<>>
    /\ preview = [id \in SessionIds |-> None]
    /\ FunctionsIdle

Next == ChatEndpoint \/ ApplyQuickModification \/ GenerateAndNotifyResume

Spec == Init /\ [][Next]_vars

(***************************************************************************)
(* Properties                                                              *)
(***************************************************************************)

\* the message is one the quick-modification path accepts for document d
Handled(message, d) == can_handle_modification(message, Some(d))

\* C5: every style-only local transform is idempotent: applying a handled
\* request to its own result yields the same document as applying it once.
C5_TransformIdempotent ==
    (Len(resume_history) >= 3 /\ Handled(query, resume_history[1]))
        => resume_history[3] = resume_history[2]

\* the message holds a cosmetic keyword and a factual keyword of the fast path
MixedMessage(message) ==
    /\ ContainsAny(Strip(Lower(message)), quick_ui_keywords)
    /\ ContainsAny(Strip(Lower(message)), quick_content_keywords)

FactualTypes == {"content_update", "data_gathering"}

\* C6: a message with both a cosmetic and a factual keyword is classified
\* CONTENT_UPDATE or DATA_GATHERING, by the fast path and by the fallback.
C6_MixedResolvesToFactual ==
    MixedMessage(query) =>
        /\ decision.quick # <<>> =>
               /\ decision.quick[1].matched
               /\ decision.quick[1].query_type \in FactualTypes
        /\ decision.fallback # <<>> =>
               decision.fallback[1].query_type \in FactualTypes

UICandidate == IF Truthy(ui.response.content) THEN ui.response.content[1] ELSE ui.original

\* C10: apply_ui_modifications returns the candidate when its word count
\* differs from the original's by at most 10% (exactly 10% included), and the
\* original when the difference exceeds 10% or the call fails.
C10_AcceptsUpToTenPercent ==
    ui.result # None =>
        LET o == content_words(ui.original)
            m == content_words(UICandidate)
        IN IF ui.response.raised THEN ui.result = Some(ui.original)
           ELSE IF 10 * Abs(o - m) <= o THEN ui.result = Some(UICandidate)
           ELSE ui.result = Some(ui.original)

\* the requests the endpoint handled for an existing session
Handled200 == {i \in 1..Len(requests) : requests[i].status = 200}

\* C1: the document the quick-modification path commits has a non-markup
\* word count within 10% of the word count of the document it replaces.
C1_QuickPathKeepsWordCount ==
    \A i \in Handled200 :
        requests[i].path = "quick" =>
            LET before == content_words(requests[i].existing_resume[1])
                after == content_words(requests[i].modified_resume[1])
            IN 10 * Abs(after - before) <= before

\* C2: a /chat message of a session is handled only when every background
\* task started for an earlier message of that session has finished.
C2_SingleFlightPerSession ==
    [][Len(requests') > Len(requests) =>
           \A i \in 1..Len(requests) :
               requests[i].session_id = Last(requests').session_id
                   => requests[i].pc = "done"]_vars

\* the requests of a session that stored a document
Stored(session_id) ==
    {i \in Handled200 :
        requests[i].session_id = session_id /\ requests[i].stored # None}

Resolved(session_id) ==
    \A i \in 1..Len(requests) :
        requests[i].session_id = session_id => requests[i].pc = "done"

SetMax(S) == CHOOSE x \in S : \A y \in S : y <= x

\* C3: messages of a session take effect in arrival order: once all are
\* resolved, the session's document is the one stored for the latest
\* message that stored one, never the document of an earlier message.
C3_ArrivalOrder ==
    \A session_id \in SessionIds :
        (Resolved(session_id) /\ Stored(session_id) # {}) =>
            sessions[session_id].resume_markdown =
                requests[SetMax(Stored(session_id))].stored

\* every call to the language model made for request i raised
GenerationFailed(i) ==
    requests[i].llm_calls > 0 /\ requests[i].llm_errors = requests[i].llm_calls

\* C4: a resolved message whose every language-model call raised stored no
\* document; when it is the session's only message, the session's
\* resume_markdown is what it was before the message.
C4_FailureRetainsDocument ==
    \A i \in Handled200 :
        (requests[i].pc = "done" /\ GenerationFailed(i)) =>
            /\ requests[i].stored = None
            /\ (\A j \in Handled200 :
                    requests[j].session_id = requests[i].session_id => j = i)
               => sessions[requests[i].session_id].resume_markdown
                      = requests[i].existing_resume

\* the message asks for a cosmetic change and to add a fact of the user's
CosmeticAndFactual(message) ==
    /\ ContainsAny(Lower(message), quick_ui_keywords)
    /\ Contains(Lower(message), "add my ")

\* C7: a message that combines a cosmetic request with a request to add
\* factual content is not accepted by can_handle_modification and takes the
\* generation path.
C7_MixedEscalates ==
    \A i \in Handled200 :
        CosmeticAndFactual(requests[i].message) =>
            /\ ~can_handle_modification(requests[i].message, requests[i].existing_resume)
            /\ requests[i].path = "full"

\* C8: a message the classifier labels DATA_GATHERING or RESUME_GENERATION
\* is never resolved by the quick-modification path.
C8_GenerationNeverQuick ==
    \A i \in Handled200 :
        (/\ regex_accepted(requests[i].message)
         /\ _quick_regex_classify(requests[i].message).query_type
                \in {"data_gathering", "resume_generation"})
            => requests[i].path # "quick"

\* the lines of a document that no local transform targets: neither a heading
\* line, nor a blank line, nor a line of the contact run
UntargetedLines(doc) ==
    LET Untargeted(line) ==
            /\ Strip(line) # ""
            /\ ~StartsWith(line, "#")
            /\ ~IsContactLine(line)
    IN SelectSeq(Split(doc, "\n"), Untargeted)

\* xs occurs in ys as a subsequence, from position i of xs and j of ys on
RECURSIVE IsSubsequence(_, _, _, _)
IsSubsequence(xs, i, ys, j) ==
    IF i > Len(xs) THEN TRUE
    ELSE IF j > Len(ys) THEN FALSE
    ELSE IF xs[i] = ys[j] THEN IsSubsequence(xs, i + 1, ys, j + 1)
    ELSE IsSubsequence(xs, i, ys, j + 1)

\* C11: a local transform changes only its targeted element: every line
\* outside the name heading, the section headings, the blank lines and the
\* contact run is still a line of the result, in the same order.
C11_TransformFrame ==
    Len(resume_history) >= 2
        => IsSubsequence(UntargetedLines(resume_history[1]), 1,
                         Split(resume_history[2], "\n"), 1)

\* the document starts with the name heading of Scenario B
StartsWithJaneDoe(doc) == Split(doc, "\n")[1] = "# Jane Doe"

\* C12: 'make the name bold' on a document whose first line is '# Jane Doe'
\* wraps that heading in bold markers once, keeps the number of lines and
\* leaves every other line identical.
C12_NameBoldScenario ==
    (/\ query = "make the name bold"
     /\ Len(resume_history) >= 2
     /\ StartsWithJaneDoe(resume_history[1]))
        => LET before == Split(resume_history[1], "\n")
               after == Split(resume_history[2], "\n")
           IN /\ Len(after) = Len(before)
              /\ after[1] = "# **Jane Doe**"
              /\ \A i \in 2..Len(before) : after[i] = before[i]

\* Scenario B has run on a document that holds a second name heading and
\* further lines
C12_Witness ==
    /\ query = "make the name bold"
    /\ Len(resume_history) >= 2
    /\ resume_history[1] = "# Jane Doe\n# Jane Doe\nPython Java\n"
    /\ resume_history[2] = "# **Jane Doe**\n# Jane Doe\nPython Java\n"

\* the labels classify_query has returned for the message
Labels ==
    {classification.hybrid[i] : i \in 1..Len(classification.hybrid)}
    \cup {classification.pure[i] : i \in 1..Len(classification.pure)}

\* C13: classify_query never raises; the query_type it returns is a member
\* of QueryType and the confidence lies in [0, 1] (0..100 hundredths),
\* whatever the semantic classifier replied.
C13_ClassifyTotalAndBounded ==
    \A label \in {classification.hybrid[i] : i \in 1..Len(classification.hybrid)} :
        /\ ~label.raised
        /\ label.query_type \in QueryType
        /\ label.confidence >= 0
        /\ label.confidence <= 100

\* the semantic classifier raised, timed out or replied with text that is
\* not JSON
SemanticCallFailed == classification.response.kind \in {"raise", "text"}

\* C14: with no fast-path match and a semantic call that raises, times out
\* or cannot be parsed, classify_query returns UNCLEAR with a confidence of
\* at most 0.3, never another intent.
C14_FailureGivesUnclear ==
    (_quick_regex_classify(query) = NoMatch /\ SemanticCallFailed)
        => \A label \in Labels :
               /\ ~label.raised
               /\ label.query_type = "unclear"
               /\ label.confidence <= 30

\* the fits made so far, by position
Fits == 1..Len(fitter.fits)

\* the name of the tier of a fit, whichever generator made it
TierName(fit) ==
    IF fitter.kind = "pdf" THEN fit.scale.size_class
    ELSE IF fitter.kind = "docx" THEN fit.scale.class
    ELSE fit.scale.level

\* the position of a tier in the order comfortable < balanced < compact <
\* dense < ultra_dense
TierIndex(fit) ==
    LET name == TierName(fit)
    IN IF name \in {"comfortable", "COMFORTABLE", "NORMAL"} THEN 1
       ELSE IF name \in {"balanced", "BALANCED", "MEDIUM"} THEN 2
       ELSE IF name \in {"compact", "COMPACT"} THEN 3
       ELSE IF name \in {"dense", "DENSE"} THEN 4
       ELSE 5

NameHeaderSize(fit) == IF fitter.kind = "pdf" THEN fit.scale.h1_size ELSE fit.scale.header
BodySize(fit) == IF fitter.kind = "pdf" THEN fit.scale.body_size ELSE fit.scale.body

\* C15: tier selection is monotonic in the density score: of two documents
\* fitted by one generator, the one with the smaller density score never
\* gets the denser tier.
C15_TierMonotoneInDensity ==
    \A i, j \in Fits :
        fitter.fits[i].analysis.density_score < fitter.fits[j].analysis.density_score
            => TierIndex(fitter.fits[i]) <= TierIndex(fitter.fits[j])

\* C16: in every scale a fitter emits, the name-header font size divided by
\* the body font size is at most 1.6.
C16_HeaderBodyRatio ==
    \A i \in Fits :
        10 * NameHeaderSize(fitter.fits[i]) <= 16 * BodySize(fitter.fits[i])

\* C17: every font size a configured generator emits lies within
\* [min_font_size, max_font_size] of its configuration, whatever profile was
\* loaded and whatever adjustments followed.
C17_FontsWithinConfiguredRange ==
    fitter.kind = "configurable"
        => \A i \in Fits :
               \A size \in {fitter.fits[i].scale.header, fitter.fits[i].scale.section,
                            fitter.fits[i].scale.body, fitter.fits[i].scale.small} :
                   /\ size >= fitter.sensitivity.min_font_size
                   /\ size <= fitter.sensitivity.max_font_size

\* the generator is configured as ConfigurableAutoFitGenerator() or as one of
\* the two generators main.py builds
ServiceConfiguration ==
    /\ fitter.kind = "configurable"
    /\ fitter.sensitivity \in {default_sensitivity, pdf_generator, docx_generator}

\* C18: under the default configuration and the two configurations of
\* main.py, 20 content lines are fit to 'comfortable' with the body font of
\* that tier, and 90 content lines to 'ultra_dense' with the body font at
\* min_font_size.
C18_ScenarioA ==
    ServiceConfiguration
        => \A i \in Fits :
               LET fit == fitter.fits[i] IN
               /\ fit.analysis.content_lines = 20
                    => /\ fit.scale.level = "comfortable"
                       /\ fit.scale.body = fitter.sensitivity.comfortable.body
               /\ fit.analysis.content_lines = 90
                    => /\ fit.scale.level = "ultra_dense"
                       /\ fit.scale.body = fitter.sensitivity.min_font_size

\* C19: for one message a failed content generation is retried at most once:
\* the generation task makes at most two calls to the chat-completion client,
\* counting those inside generate_resume and get_parsed_completion and the
\* retry of generate_and_notify_resume.
C19_AtMostOneRetry ==
    \A i \in 1..Len(requests) : requests[i].generation_calls <= 2

\* the step is part of an operation on session b: a /chat request for b is
\* handled, or the task of a request of b moves
OperatesOn(b) ==
    \E i \in 1..Len(requests') :
        /\ requests'[i].session_id = b
        /\ (i > Len(requests) \/ requests'[i] # requests[i])

\* C20: operations on one session, failed or not, leave the stored chat
\* history, user data and resume_markdown of every other session unchanged:
\* a session's stored data changes only in a step of an operation on it.
C20_SessionIsolation ==
    [][\A b \in SessionIds : sessions'[b] # sessions[b] => OperatesOn(b)]_vars

\* every request so far was for session s2, one of them lost every
\* language-model call, s2's stored data changed and s1's is as at the start
C20_Witness ==
    /\ Len(requests) >= 1
    /\ \A i \in 1..Len(requests) : requests[i].session_id = "s2"
    /\ \E i \in 1..Len(requests) : GenerationFailed(i) /\ requests[i].pc = "done"
    /\ sessions["s2"] # NewSession
    /\ sessions["s1"] = GeneratedSession

\* C21: the preview follows the session document: once every background
\* task of a session has finished, the markdown of the last
\* resume_pdf_update sent to the session equals its stored resume_markdown.
C21_PreviewSynchronized ==
    \A session_id \in SessionIds :
        (Resolved(session_id) /\ preview[session_id] # None)
            => preview[session_id] = sessions[session_id].resume_markdown

\* C22: a message that states an employment detail is classified as
\* content_update or data_gathering, never as ui_modification, by the fast
\* path and by the keyword fallback, and it gets the same labels whatever
\* messages of the session were classified before it.
C22_EmploymentDetailIsFactual ==
    \A i \in 1..Len(conversation) :
        conversation[i].message \in EmploymentMessages
            => /\ conversation[i].quick.matched
               /\ conversation[i].quick.query_type \in FactualTypes
               /\ conversation[i].fallback.query_type \in FactualTypes
               /\ \A j \in 1..Len(conversation) :
                      conversation[j].message = conversation[i].message
                          => /\ conversation[j].quick = conversation[i].quick
                             /\ conversation[j].fallback = conversation[i].fallback

FastPathAccepted(message) ==
    LET regex_result == _quick_regex_classify(message)
    IN regex_result.matched /\ regex_result.confidence >= 80

\* C23: when the fast path matches with confidence at least 0.8 the hybrid
\* classifier returns that result with method 'regex' and never calls the
\* semantic classifier; it calls the semantic classifier, once, exactly when
\* the fast path has no match or its confidence is below 0.8.
C23_FastPathSkipsSemanticClassifier ==
    classification.hybrid # None
        => LET result == classification.hybrid[1]
               regex_result == _quick_regex_classify(query)
           IN /\ result.ai_classifier_calls \in {0, 1}
              /\ result.ai_classifier_calls = 1 <=> ~FastPathAccepted(query)
              /\ FastPathAccepted(query)
                     => /\ result.method_used = "regex"
                        /\ ~result.raised
                        /\ result.query_type = regex_result.query_type
                        /\ result.confidence = regex_result.confidence
                        /\ result.categories = regex_result.categories
              /\ ~FastPathAccepted(query) => result.method_used = "ai"

\* a message accepted by the fast path was classified while the semantic
\* classifier would have answered with a well-formed label of its own
C23_Witness ==
    /\ classification.hybrid # None
    /\ FastPathAccepted(query)
    /\ classification.response.kind = "object"
    /\ classification.hybrid[1].method_used = "regex"
    /\ classification.hybrid[1].ai_classifier_calls = 0

C23_WitnessSemantic ==
    /\ classification.hybrid # None
    /\ ~FastPathAccepted(query)
    /\ classification.hybrid[1].method_used = "ai"
    /\ classification.hybrid[1].ai_classifier_calls = 1

HasContentKeyword(message) == Indicators(Lower(message), content_keywords) > 0
HasUIKeyword(message) == Indicators(Lower(message), ui_keywords) > 0

\* C24: is_ui_modification_request answers false for every message that
\* contains a content keyword, mixed messages included, and true for every
\* message that contains UI keywords and no content keyword.
C24_ContentTakesPrecedence ==
    \A i \in 1..Len(conversation) :
        LET message == conversation[i].message
        IN /\ HasContentKeyword(message) => ~conversation[i].ui_request
           /\ (HasUIKeyword(message) /\ ~HasContentKeyword(message))
                  => conversation[i].ui_request

\* the request is dispatched to _modify_spacing and takes its compact branch
SelectsCompactSpacing(user_query) ==
    LET query_lower == Lower(user_query)
    IN /\ ~Contains(query_lower, "font") /\ ~Contains(query_lower, "bold")
       /\ ~Contains(query_lower, "color")
       /\ ContainsAny(query_lower, {"compact", "spacing", "tighter"})
       /\ ContainsAny(query_lower, {"less space", "compact", "tighter"})

NonBlank(lines) == {i \in 1..Len(lines) : lines[i] # ""}

NthNonBlank(lines, n) ==
    CHOOSE i \in NonBlank(lines) : Cardinality({k \in NonBlank(lines) : k <= i}) = n

\* the number of blank lines between the n-th and the next line of text
BlankRun(lines, n) == NthNonBlank(lines, n + 1) - NthNonBlank(lines, n) - 1

\* C25: the compact-spacing transform replaces every run of three or more
\* consecutive blank lines by exactly one blank line, never by none, and the
\* result then has strictly fewer lines than the input.
C25_CompactCollapsesBlankRuns ==
    SelectsCompactSpacing(query)
        => \A i \in 1..(Len(resume_history) - 1) :
               LET before == Split(resume_history[i], "\n")
                   after == Split(resume_history[i + 1], "\n")
               IN \A n \in 1..(Cardinality(NonBlank(before)) - 1) :
                      BlankRun(before, n) >= 3
                          => /\ Cardinality(NonBlank(after)) = Cardinality(NonBlank(before))
                             /\ BlankRun(after, n) = 1
                             /\ Len(after) < Len(before)

\* C26: a /chat request whose session_id is not in the session store is
\* answered with the 'Session not found' error, status 404; it creates no
\* session, applies no local transform and starts no background task.
C26_UnknownSessionIs404 ==
    \A i \in 1..Len(requests) :
        get_session(sessions, requests[i].session_id) = None
            => /\ requests[i].status = 404
               /\ requests[i].path = "none"
               /\ requests[i].task = "none"
               /\ requests[i].modified_resume = None
               /\ requests[i].llm_calls = 0

\* what a step does for the request in frame i when it is on the quick path
QuickPathStep(i) ==
    LET session_id == requests'[i].session_id
    IN /\ requests'[i].llm_calls = 0
       /\ requests'[i].generation_calls = 0
       /\ requests'[i].resume_data = None
       /\ IF i > Len(requests)
          THEN \* the step of chat_endpoint that resolves the message
               /\ sessions'[session_id].user_data = sessions[session_id].user_data
               /\ sessions'[session_id].resume_markdown = requests'[i].modified_resume
               /\ Len(sessions'[session_id].chat_history)
                      = Len(sessions[session_id].chat_history) + 2
               /\ SubSeq(sessions'[session_id].chat_history, 1,
                         Len(sessions[session_id].chat_history))
                      = sessions[session_id].chat_history
               /\ \A other \in DOMAIN sessions \ {session_id} :
                      sessions'[other] = sessions[other]
               /\ requests'[i].pc = "created"
               /\ preview' = preview
          ELSE \* a step of its background task, after the commit
               requests'[i] # requests[i]
                   => /\ sessions' = sessions
                      /\ requests[i].stored = requests[i].modified_resume
                      /\ requests'[i].stored = requests[i].stored

\* C27: a message resolved by the quick-modification path makes no call to
\* the language model, leaves the session's user_data and every other
\* session unchanged, changes only resume_markdown and the chat history of
\* its session, and its rendering task runs only after the commit.
C27_QuickPathLeavesDataAlone ==
    [][\A i \in 1..Len(requests') : requests'[i].path = "quick" => QuickPathStep(i)]_vars

\* a quick-path request of a session with collected data has been rendered
C27_Witness ==
    \E i \in 1..Len(requests) :
        /\ requests[i].path = "quick"
        /\ requests[i].pc = "pdf_update"
        /\ sessions[requests[i].session_id].user_data # EmptyResumeData
        /\ sessions[requests[i].session_id].resume_markdown = requests[i].modified_resume

\* the request is dispatched to _modify_layout and takes its compact branch
SelectsContactCompact(user_query) ==
    LET query_lower == Lower(user_query)
    IN /\ ~ContainsAny(query_lower,
               {"font", "bold", "color", "compact", "spacing", "tighter"})
       /\ Contains(query_lower, "layout")
       /\ Contains(query_lower, "shorter")

\* the contact lines of a document: the lines with contact details up to the
\* first blank line that follows one
ContactSection(lines) ==
    LET contacts == {i \in 1..Len(lines) : IsContactLine(lines[i])}
        first == CHOOSE i \in contacts : \A j \in contacts : i <= j
        blanks == {j \in 1..Len(lines) : j > first /\ Strip(lines[j]) = ""}
    IN IF contacts = {} THEN {}
       ELSE {i \in contacts : \A j \in blanks : i < j}

RECURSIVE Without(_, _, _)
Without(lines, indexes, i) ==
    IF i > Len(lines) THEN <<>>
    ELSE (IF i \in indexes THEN <<>> ELSE <<lines[i]>>) \o Without(lines, indexes, i + 1)

RECURSIVE Chosen(_, _, _)
Chosen(lines, indexes, i) ==
    IF i > Len(lines) THEN <<>>
    ELSE (IF i \in indexes THEN <<Strip(lines[i])>> ELSE <<>>)
         \o Chosen(lines, indexes, i + 1)

\* C28: the contact-merge transform replaces the contact lines by one line
\* that joins them with ' | ' and keeps every other line exactly once, in
\* the original order, also when lines of text lie between contact lines.
C28_ContactMergeKeepsOtherLines ==
    SelectsContactCompact(query)
        => \A i \in 1..(Len(resume_history) - 1) :
               LET lines == Split(resume_history[i], "\n")
                   section == ContactSection(lines)
                   first == CHOOSE k \in section : \A j \in section : k <= j
                   others == Without(lines, section, 1)
               IN (section # {} /\ CollapseNewlines(resume_history[i]) = resume_history[i])
                      => Split(resume_history[i + 1], "\n")
                             = SubSeq(others, 1, first - 1)
                               \o <<Join(Chosen(lines, section, 1), " | ")>>
                               \o SubSeq(others, first, Len(others))

\* C29: whenever the endpoint answers 'Applied your ... modification', the
\* document it committed differs from the document the session held before:
\* a transform that changes nothing is not reported as applied.
C29_AppliedMeansChanged ==
    \A i \in 1..Len(requests) :
        requests[i].path = "quick"
            => requests[i].modified_resume # requests[i].existing_resume

\* C30: the session store has value semantics in both backends: the chat
\* history that chat_endpoint passes to the AI orchestrator is the same with
\* the Redis backend and with the in-memory fallback.
C30_BackendsPassSameHistory ==
    \A i \in 1..Len(requests) :
        requests[i].chat_history # None
            => requests[i].chat_history[1].redis = requests[i].chat_history[1].memory

====
